---- MODULE Spec2Model ----
(***************************************************************************)
(* clockwork-mage: a discrete-time simulation of a player executing timed  *)
(* actions.  The model covers the Clock (time.rs), the Action catalog      *)
(* (action.rs), the Player state machine (player.rs), the Rotation         *)
(* strategies (rotation.rs), Simulator::step and its event log             *)
(* (simulator.rs) and the driving loop of main (main.rs).                  *)
(*                                                                         *)
(* An Option<T> is a sequence of length at most one: None is <<>> and      *)
(* Some(x) is <<x>>.  A failed assert! aborts the program; the model       *)
(* records which assertion failed in the variable panic and takes no       *)
(* further step afterwards.                                                *)
(***************************************************************************)
EXTENDS Integers, Sequences, FiniteSets, TLC

VARIABLES
    player,     \* Player: [mp, recast_lock, animation_lock, casting]
    clock,      \* Clock: the current Timestamp
    rotation,   \* the Rotation: [kind, actions, current]
    event_log,  \* Simulator.event_log: sequence of Event
    panic,      \* "none", or the assertion that aborted the program
    decided,    \* what rotation.action returned in the latest step
    began,      \* the (now, action) of the latest begin that took effect
    steps,      \* number of calls of Simulator::step so far
    decisions,  \* number of calls of rotation.action so far
    idle,       \* ticks the Player's caller let pass while nothing was locked
    duration,   \* main: opt.duration
    pc          \* main: "loop" while the while-loop runs, "exit" after it

vars == <<player, clock, rotation, event_log, panic, decided, began, steps, decisions,
          idle, duration, pc>>

----------------------------------------------------------------------------
(* Bounds of the model *)

\* horizon of the Player-level runs (ten Hits take 2500 ticks)
PlayerMaxTime == 2510
\* ticks a Player-level caller may let pass while no lock is held
MaxIdle == 3
\* horizon of the Simulator runs with an arbitrary rotation
AnyMaxTime == 300
\* horizon of the Simulator runs with Empty, Repeat and EagerHit
SimMaxTime == 3510
\* longest sequence given to Repeat
MaxSeqLen == 3
\* largest --duration given to main
MaxDuration == 260
\* horizon of the runs that consult a rotation directly
RotationMaxTime == 255
\* calls of rotation.action made in such a run
MaxDecisions == 5

----------------------------------------------------------------------------
(* Option *)

None == <<>>

Some(x) == <<x>>

\* a >= b for Option<Timestamp> under the derived ordering: None < Some(_)
OptionGe(a, b) ==
    IF b = None THEN TRUE
    ELSE IF a = None THEN FALSE
    ELSE a[1] >= b[1]

----------------------------------------------------------------------------
(* action.rs *)

Action == {"Hit", "Recharge"}

cast_time(action) ==
    CASE action = "Hit" -> 150
      [] action = "Recharge" -> 250

\* a recast_time that returns the animation time
recast_time_short(action) == 50

recast_time(action) == 250

animation_time(action) == 50

mp_cost(action) ==
    CASE action = "Hit" -> 1000
      [] action = "Recharge" -> -2000

is_ogcd(action) == FALSE

----------------------------------------------------------------------------
(* time.rs *)

\* Timestamp + Duration
TimestampAdd(t, d) == t + d

\* a tick that advances by two units
tick_twice(now) == TimestampAdd(now, 2)

\* Clock::tick, as the new value of the cell
tick(now) == TimestampAdd(now, 1)

----------------------------------------------------------------------------
(* player.rs *)

Cast(finish, action) == [finish |-> finish, action |-> action]

\* Player::new
new_player ==
    [mp |-> 10000, recast_lock |-> None, animation_lock |-> None, casting |-> None]

\* a locked whose comparisons are strict: a lock expiring at T still holds at T
locked_strict(p, action, now) ==
    LET unlocked == ((p.recast_lock = None \/ now > p.recast_lock[1]) \/ is_ogcd(action))
                    /\ (p.animation_lock = None \/ now > p.animation_lock[1])
    IN  ~unlocked

\* Player::locked, with now = self.clock.now()
locked(p, action, now) ==
    LET unlocked == (OptionGe(Some(now), p.recast_lock) \/ is_ogcd(action))
                    /\ OptionGe(Some(now), p.animation_lock)
    IN  ~unlocked

\* a begin without its lock assertion
begin_unchecked(p, action, now) ==
    IF ~(mp_cost(action) <= p.mp)
    THEN [player |-> p, panic |-> "begin_mp"]
    ELSE [player |-> [p EXCEPT
                        !.recast_lock = Some(TimestampAdd(now, recast_time(action))),
                        !.animation_lock = Some(TimestampAdd(now, animation_time(action))),
                        !.casting = Some(Cast(TimestampAdd(now, cast_time(action)), action))],
          panic |-> "none"]

\* a begin without its resource assertion
begin_unfunded(p, action, now) ==
    IF locked(p, action, now)
    THEN [player |-> p, panic |-> "begin_locked"]
    ELSE [player |-> [p EXCEPT
                        !.recast_lock = Some(TimestampAdd(now, recast_time(action))),
                        !.animation_lock = Some(TimestampAdd(now, animation_time(action))),
                        !.casting = Some(Cast(TimestampAdd(now, cast_time(action)), action))],
          panic |-> "none"]

\* Player::begin: the player afterwards, and the assertion that failed if any
begin(p, action, now) ==
    IF locked(p, action, now)
    THEN [player |-> p, panic |-> "begin_locked"]
    ELSE IF ~(mp_cost(action) <= p.mp)
    THEN [player |-> p, panic |-> "begin_mp"]
    ELSE [player |-> [p EXCEPT
                        !.recast_lock = Some(TimestampAdd(now, recast_time(action))),
                        !.animation_lock = Some(TimestampAdd(now, animation_time(action))),
                        !.casting = Some(Cast(TimestampAdd(now, cast_time(action)), action))],
          panic |-> "none"]

\* a perform_action that adds the cost instead of subtracting it
perform_action_adds(p, action) ==
    IF ~(mp_cost(action) <= p.mp)
    THEN [player |-> p, panic |-> "perform_mp"]
    ELSE [player |-> [p EXCEPT !.mp = p.mp + mp_cost(action)], panic |-> "none"]

\* Player::perform_action
perform_action(p, action) ==
    IF ~(mp_cost(action) <= p.mp)
    THEN [player |-> p, panic |-> "perform_mp"]
    ELSE [player |-> [p EXCEPT !.mp = p.mp - mp_cost(action)], panic |-> "none"]

\* a perform that resolves the stored cast without looking at the clock
perform_eager(p, now) ==
    IF p.casting # None
    THEN LET action == p.casting[1].action
             r == perform_action([p EXCEPT !.casting = None], action)
         IN  [player |-> r.player, ret |-> Some(action), panic |-> r.panic]
    ELSE [player |-> p, ret |-> None, panic |-> "none"]

\* a perform that resolves a cast only strictly after its finish
perform_late(p, now) ==
    IF p.casting # None /\ now > p.casting[1].finish
    THEN LET action == p.casting[1].action
             r == perform_action([p EXCEPT !.casting = None], action)
         IN  [player |-> r.player, ret |-> Some(action), panic |-> r.panic]
    ELSE [player |-> p, ret |-> None, panic |-> "none"]

\* Player::perform: the player afterwards, the returned Option<Action>, and
\* the assertion that failed if any
perform(p, now) ==
    IF p.casting # None /\ now >= p.casting[1].finish
    THEN LET action == p.casting[1].action
             r == perform_action([p EXCEPT !.casting = None], action)
         IN  [player |-> r.player, ret |-> Some(action), panic |-> r.panic]
    ELSE [player |-> p, ret |-> None, panic |-> "none"]

----------------------------------------------------------------------------
(* rotation.rs *)

Empty == [kind |-> "Empty", actions |-> <<>>, current |-> 0]

\* Repeat::new
Repeat(actions) == [kind |-> "Repeat", actions |-> actions, current |-> 0]

EagerHit == [kind |-> "EagerHit", actions |-> <<>>, current |-> 0]

\* some implementation of the Rotation trait, free to return anything
AnyRotation == [kind |-> "Any", actions |-> <<>>, current |-> 0]

\* Empty::action
EmptyAction(r, p, now) == [ret |-> None, rotation |-> r]

\* a Repeat::action that does not consult locked
RepeatAction_nolock(r, p, now) ==
    LET action == r.actions[r.current + 1]
    IN  [ret |-> Some(action),
         rotation |-> [r EXCEPT !.current = (r.current + 1) % Len(r.actions)]]

\* a Repeat::action that returns the action without moving the cursor
RepeatAction_noadvance(r, p, now) ==
    LET action == r.actions[r.current + 1]
    IN  IF locked(p, action, now)
        THEN [ret |-> None, rotation |-> r]
        ELSE [ret |-> Some(action), rotation |-> r]

\* a Repeat::action that moves the cursor past a locked action
RepeatAction_skips(r, p, now) ==
    LET action == r.actions[r.current + 1]
        next == [r EXCEPT !.current = (r.current + 1) % Len(r.actions)]
    IN  IF locked(p, action, now)
        THEN [ret |-> None, rotation |-> next]
        ELSE [ret |-> Some(action), rotation |-> next]

\* Repeat::action (current is a 0-based index)
RepeatAction(r, p, now) ==
    LET action == r.actions[r.current + 1]
    IN  IF locked(p, action, now)
        THEN [ret |-> None, rotation |-> r]
        ELSE [ret |-> Some(action),
              rotation |-> [r EXCEPT !.current = (r.current + 1) % Len(r.actions)]]

\* an EagerHit::action whose balance test is strict
EagerHitAction_strict(r, p, now) ==
    LET action == IF p.mp > mp_cost("Hit") THEN "Hit" ELSE "Recharge"
    IN  IF locked(p, action, now)
        THEN [ret |-> None, rotation |-> r]
        ELSE [ret |-> Some(action), rotation |-> r]

\* an EagerHit::action with the two branches of its balance test swapped
EagerHitAction_swapped(r, p, now) ==
    LET action == IF p.mp >= mp_cost("Hit") THEN "Recharge" ELSE "Hit"
    IN  IF locked(p, action, now)
        THEN [ret |-> None, rotation |-> r]
        ELSE [ret |-> Some(action), rotation |-> r]

\* EagerHit::action
EagerHitAction(r, p, now) ==
    LET action == IF p.mp >= mp_cost("Hit") THEN "Hit" ELSE "Recharge"
    IN  IF locked(p, action, now)
        THEN [ret |-> None, rotation |-> r]
        ELSE [ret |-> Some(action), rotation |-> r]

\* Rotation::action through the trait object; choice is what an arbitrary
\* implementation returns
RotationAction(r, p, now, choice) ==
    CASE r.kind = "Empty" -> EmptyAction(r, p, now)
      [] r.kind = "Repeat" -> RepeatAction(r, p, now)
      [] r.kind = "EagerHit" -> EagerHitAction(r, p, now)
      [] r.kind = "Any" -> [ret |-> choice, rotation |-> r]

\* the values an implementation can return
Choices(r) == IF r.kind = "Any" THEN {None} \cup {Some(a) : a \in Action} ELSE {None}

----------------------------------------------------------------------------
(* simulator.rs *)

Begin(action) == <<"Begin", action>>

Perform(action) == <<"Perform", action>>

Event(kind, timestamp) == [kind |-> kind, timestamp |-> timestamp]

\* a log_event that inserts at the front
log_event_front(log, kind, now) == <<Event(kind, now)>> \o log

\* Simulator::log_event, with now = self.now()
log_event(log, kind, now) == Append(log, Event(kind, now))

\* Simulator::step
Step(choice) ==
    LET now == clock
        pf  == perform(player, now)
        log1 == IF pf.ret # None
                THEN log_event(event_log, Perform(pf.ret[1]), now)
                ELSE event_log
        ra  == RotationAction(rotation, pf.player, now, choice)
        bg  == IF ra.ret # None
               THEN begin(pf.player, ra.ret[1], now)
               ELSE [player |-> pf.player, panic |-> "none"]
        log2 == IF ra.ret # None
                THEN log_event(log1, Begin(ra.ret[1]), now)
                ELSE log1
    IN  /\ panic = "none"
        /\ steps' = steps + 1
        /\ IF pf.panic # "none"
           THEN /\ panic' = pf.panic
                /\ player' = pf.player
                /\ UNCHANGED <<clock, rotation, event_log, decided, began, decisions>>
           ELSE IF bg.panic # "none"
           THEN /\ panic' = bg.panic
                /\ player' = bg.player
                /\ event_log' = log1
                /\ rotation' = ra.rotation
                /\ decided' = ra.ret
                /\ decisions' = decisions + 1
                /\ UNCHANGED <<clock, began>>
           ELSE /\ player' = bg.player
                /\ event_log' = log2
                /\ rotation' = ra.rotation
                /\ decided' = ra.ret
                /\ began' = IF ra.ret # None
                            THEN Some([at |-> now, action |-> ra.ret[1]])
                            ELSE began
                /\ clock' = tick(clock)
                /\ decisions' = decisions + 1
                /\ UNCHANGED panic

\* Simulator::new
InitSimulator(r) ==
    /\ player = new_player
    /\ clock = 0
    /\ rotation = r
    /\ event_log = <<>>
    /\ panic = "none"
    /\ decided = None
    /\ began = None
    /\ steps = 0
    /\ decisions = 0
    /\ idle = 0

----------------------------------------------------------------------------
(* Simulator runs with the rotations of rotation.rs *)

\* the non-empty sequences of actions of length at most n
ActionSeqs(n) == UNION {[1..k -> Action] : k \in 1..n}

Rotations == {Empty, EagerHit} \cup {Repeat(s) : s \in ActionSeqs(MaxSeqLen)}

InitSim ==
    /\ \E r \in Rotations : InitSimulator(r)
    /\ duration = 0
    /\ pc = "loop"

SimStep ==
    /\ clock < SimMaxTime
    /\ \E choice \in Choices(rotation) : Step(choice)
    /\ UNCHANGED <<idle, duration, pc>>

SpecSim == InitSim /\ [][SimStep]_vars

----------------------------------------------------------------------------
(* Simulator runs with an arbitrary implementation of Rotation *)

InitAny ==
    /\ InitSimulator(AnyRotation)
    /\ duration = 0
    /\ pc = "loop"

AnyStep ==
    /\ clock < AnyMaxTime
    /\ \E choice \in Choices(rotation) : Step(choice)
    /\ UNCHANGED <<idle, duration, pc>>

SpecAny == InitAny /\ [][AnyStep]_vars

----------------------------------------------------------------------------
(* A Player driven directly, as the tests of player.rs do: clock.tick(),   *)
(* player.perform() and player.begin(action) in any order                  *)

InitPlayer ==
    /\ InitSimulator(Empty)
    /\ duration = 0
    /\ pc = "loop"

AnyLocked == \E a \in Action : locked(player, a, clock)

PlayerTick ==
    /\ panic = "none"
    /\ clock < PlayerMaxTime
    /\ AnyLocked \/ idle < MaxIdle
    /\ clock' = tick(clock)
    /\ idle' = IF AnyLocked THEN idle ELSE idle + 1
    /\ UNCHANGED <<player, rotation, event_log, panic, decided, began, steps, decisions, duration, pc>>

PlayerPerform ==
    /\ panic = "none"
    /\ LET pf == perform(player, clock)
       IN  /\ player' = pf.player
           /\ panic' = pf.panic
    /\ UNCHANGED <<clock, rotation, event_log, decided, began, steps, decisions, idle, duration, pc>>

PlayerBegin(action) ==
    /\ panic = "none"
    /\ LET bg == begin(player, action, clock)
       IN  /\ player' = bg.player
           /\ panic' = bg.panic
           /\ began' = IF bg.panic = "none"
                       THEN Some([at |-> clock, action |-> action])
                       ELSE began
    /\ UNCHANGED <<clock, rotation, event_log, decided, steps, decisions, idle, duration, pc>>

NextPlayer ==
    \/ PlayerTick
    \/ PlayerPerform
    \/ \E action \in Action : PlayerBegin(action)

SpecPlayer == InitPlayer /\ [][NextPlayer]_vars

----------------------------------------------------------------------------
(* A rotation consulted directly, as the tests of rotation.rs do:          *)
(* rotation.action(&player) against a Player that the caller begins        *)
(* actions on and whose clock the caller ticks                             *)

InitRotation ==
    /\ \E r \in Rotations : InitSimulator(r)
    /\ duration = 0
    /\ pc = "loop"

\* rotation.action(&player)
Decide ==
    /\ panic = "none"
    /\ decisions < MaxDecisions
    /\ \E choice \in Choices(rotation) :
          LET ra == RotationAction(rotation, player, clock, choice)
          IN  /\ decided' = ra.ret
              /\ rotation' = ra.rotation
    /\ decisions' = decisions + 1
    /\ UNCHANGED <<player, clock, event_log, panic, began, steps, idle, duration, pc>>

RotationTick ==
    /\ clock < RotationMaxTime
    /\ PlayerTick

NextRotation ==
    \/ Decide
    \/ RotationTick
    \/ \E action \in Action : PlayerBegin(action)

SpecRotation == InitRotation /\ [][NextRotation]_vars

----------------------------------------------------------------------------
(* main.rs *)

\* impl From<RotationArg> for Box<dyn Rotation>
RotationArg == {"Empty", "HitRecharge", "EagerHit"}

FromRotationArg(arg) ==
    CASE arg = "Empty" -> Empty
      [] arg = "HitRecharge" -> Repeat(<<"Hit", "Recharge">>)
      [] arg = "EagerHit" -> EagerHit

InitMain ==
    /\ \E arg \in RotationArg : InitSimulator(FromRotationArg(arg))
    /\ duration \in 0..MaxDuration
    /\ pc = "loop"

\* one iteration of: while simulator.now().0 <= opt.duration { simulator.step() }
MainLoop ==
    /\ pc = "loop"
    /\ clock <= duration
    /\ \E choice \in Choices(rotation) : Step(choice)
    /\ UNCHANGED <<idle, duration, pc>>

\* the loop condition is false: main returns
MainExit ==
    /\ pc = "loop"
    /\ panic = "none"
    /\ ~(clock <= duration)
    /\ pc' = "exit"
    /\ UNCHANGED <<player, clock, rotation, event_log, panic, decided, began, steps, decisions, idle, duration>>

NextMain == MainLoop \/ MainExit

SpecMain == InitMain /\ [][NextMain]_vars

----------------------------------------------------------------------------
(* Properties *)

\* a step of the behaviour is a call of Simulator::step
StepCalled == steps' = steps + 1

\* a step of the behaviour is a begin that took effect
BeginExecuted == began' # began

\* the log of a run of Repeat over [Recharge] after n steps: Begin@0, then
\* Perform@250j, Begin@250j for every multiple 250j < n
RechargeLog(n) ==
    LET begins == IF n = 0 THEN 0 ELSE ((n - 1) \div 250) + 1
    IN  [i \in 1..(IF begins = 0 THEN 0 ELSE 2 * begins - 1) |->
            IF i % 2 = 0
            THEN Event(Perform("Recharge"), 250 * (i \div 2))
            ELSE Event(Begin("Recharge"), 250 * ((i - 1) \div 2))]

\* C1: in a run of Repeat over [Recharge] (cast time = recast time = 250) the
\* log after n steps is Begin@0 followed by Perform@250j, Begin@250j, in that
\* order, for every multiple 250j below n: [Begin@0] before the step at 250,
\* [Begin@0, Perform@250, Begin@250] after it, and so on at later multiples.
C1_BeginOnSameTickAsPerform ==
    (rotation.kind = "Repeat" /\ rotation.actions = <<"Recharge">>)
        => event_log = RechargeLog(clock)

C1_Witness ==
    /\ rotation.kind = "Repeat" /\ rotation.actions = <<"Recharge">>
    /\ clock = 501
    /\ Len(event_log) = 5
    /\ event_log[4] = Event(Perform("Recharge"), 500)
    /\ event_log[5] = Event(Begin("Recharge"), 500)

\* C2: after begin(A) at time t, begin itself and every tick leave the
\* balance unchanged; whenever the cast is stored, a perform called at
\* now < t + cast_time(A) leaves the balance unchanged and a perform called at
\* now >= t + cast_time(A) changes it by exactly -mp_cost(A); the balance
\* changes in no other way.
C2_MpDeductedOnFinish ==
    /\ [](player.casting # None =>
            LET t == began[1].at
                A == began[1].action
                after == perform(player, clock)
            IN  IF clock < t + cast_time(A)
                THEN after.player.mp = player.mp /\ after.ret = None
                ELSE after.player.mp = player.mp - mp_cost(A) /\ after.ret = Some(A))
    /\ [][ /\ (BeginExecuted => player'.mp = player.mp)
           /\ (PlayerTick => player'.mp = player.mp)
           /\ (player'.mp # player.mp =>
                  /\ PlayerPerform
                  /\ player.casting # None
                  /\ clock >= began[1].at + cast_time(began[1].action)
                  /\ player'.mp = player.mp - mp_cost(began[1].action)) ]_vars

C2_Witness ==
    /\ began = Some([at |-> 0, action |-> "Hit"])
    /\ clock = 150
    /\ player.casting = None
    /\ player.mp = 9000

\* C3: after begin(A) at time t the player is locked for A at every clock
\* value in t .. t + recast_time(A) - 1 and not locked at t + recast_time(A),
\* as long as no other begin has happened since.
C3_UnlockTimer ==
    began # None =>
        LET t == began[1].at
            A == began[1].action
        IN  /\ (clock \in t..(t + recast_time(A) - 1) => locked(player, A, clock))
            /\ (clock = t + recast_time(A) => ~locked(player, A, clock))

C3_Witness ==
    /\ began # None
    /\ began[1].at > 0
    /\ clock = began[1].at + recast_time(began[1].action)
    /\ ~locked(player, began[1].action, clock)

\* the step called Simulator::step and the rotation returned an action that
\* is locked at the moment it is forwarded to begin
LockedDecision ==
    /\ StepCalled
    /\ panic' # "perform_mp"
    /\ decided' # None
    /\ locked(perform(player, clock).player, decided'[1], clock)

\* the events the step appended
Appended == SubSeq(event_log', Len(event_log) + 1, Len(event_log'))

NoBeginAppended == \A i \in 1..Len(Appended) : Appended[i].kind[1] # "Begin"

\* the step changed the player no further than its perform phase did
PlayerAsPerformLeftIt == player' = perform(player, clock).player

\* C4 as stated: a begin takes effect only for an action that is not locked,
\* and a step whose rotation returned a locked action begins nothing, appends
\* no Begin event, leaves the player unchanged and advances the clock by one.
C4_LockedDecisionSkipped ==
    [][ /\ (StepCalled /\ BeginExecuted => ~locked(player, began'[1].action, clock))
        /\ (LockedDecision =>
               /\ panic' = "none"
               /\ ~BeginExecuted
               /\ NoBeginAppended
               /\ PlayerAsPerformLeftIt
               /\ clock' = clock + 1) ]_vars

\* C4 amended: a begin takes effect only for an action that is not locked,
\* and a step whose rotation returned a locked action aborts in the lock
\* assertion of begin: nothing is begun, no Begin event is appended, the player
\* is unchanged and the clock is not advanced.
C4_LockedDecisionAborts ==
    [][ /\ (StepCalled /\ BeginExecuted => ~locked(player, began'[1].action, clock))
        /\ (LockedDecision =>
               /\ panic' = "begin_locked"
               /\ ~BeginExecuted
               /\ NoBeginAppended
               /\ PlayerAsPerformLeftIt
               /\ clock' = clock) ]_vars

C4_Witness ==
    /\ panic = "begin_locked"
    /\ decided # None
    /\ locked(player, decided[1], clock)
    /\ began # None
    /\ clock > began[1].at + 1

\* C5 as stated: begin is never executed while a Cast is stored in the player.
C5_NoCastStoredAtBegin ==
    [][BeginExecuted => player.casting = None]_vars

\* C5 amended: begin is never executed while a stored Cast is still in
\* progress (now < its finish); a Cast that has finished but has not been
\* resolved by perform is not protected by the lock check.
C5_NoCastInProgressAtBegin ==
    [][BeginExecuted /\ player.casting # None => clock >= player.casting[1].finish]_vars

\* a second begin has overwritten the Cast of the first, whose cost was never
\* deducted
C5_Witness ==
    /\ began # None
    /\ began[1].at = 250
    /\ player.casting # None
    /\ player.mp = 10000
    /\ panic = "none"

\* C6: the balance is never negative.
C6_MpNonNegative == player.mp >= 0

\* the balance is exhausted and a begin of an action costing more has aborted
C6_Witness ==
    /\ player.mp = 0
    /\ panic = "begin_mp"

\* C7 as stated: a run with Repeat never reaches a failed assertion.
C7_RepeatNeverPanics == rotation.kind = "Repeat" => panic = "none"

\* C7 amended: every action Repeat returns is not locked at the moment it is
\* forwarded, so the lock assertion of begin never fails in a run with Repeat.
C7_RepeatNeverLocked ==
    /\ [](rotation.kind = "Repeat" => panic # "begin_locked")
    /\ [][rotation.kind = "Repeat" => ~LockedDecision]_vars

\* Repeat waited for the lock and began its action at the tick it expired
C7_Witness ==
    /\ rotation.kind = "Repeat"
    /\ decided # None
    /\ began = Some([at |-> 250, action |-> decided[1]])
    /\ clock = 251

\* C8: when main's loop over the Empty rotation has exited, the log is empty
\* and the current timestamp equals the horizon.
C8_EmptyRunEndsAtHorizon ==
    (pc = "exit" /\ rotation.kind = "Empty") => (event_log = <<>> /\ clock = duration)

IsPrefix(s, t) == Len(s) <= Len(t) /\ SubSeq(t, 1, Len(s)) = s

NonDecreasing(log) ==
    \A i, j \in 1..Len(log) : i <= j => log[i].timestamp <= log[j].timestamp

\* C9: every step leaves the earlier log as a prefix of the later log, and
\* the timestamps of the log are non-decreasing in log order.
C9_LogAppendOnly ==
    [][IsPrefix(event_log, event_log') /\ NonDecreasing(event_log')]_vars

\* a Perform and a Begin were appended in the same step, after an earlier entry
C9_Witness ==
    /\ Len(event_log) >= 3
    /\ event_log[2].kind[1] = "Perform"
    /\ event_log[3].kind[1] = "Begin"
    /\ event_log[2].timestamp = event_log[3].timestamp
    /\ event_log[1].timestamp < event_log[2].timestamp

\* C10: a step that completes increases the clock by exactly one, and does
\* so after its resolve and begin phases (the events it appends and the begin
\* it makes carry the timestamp from before the step); a step that aborts and
\* any other step leave the clock alone; after n completed steps now() = n.
C10_ClockAdvancesOncePerStep ==
    /\ [](clock = IF panic = "none" THEN steps ELSE steps - 1)
    /\ [][ /\ (StepCalled /\ panic' = "none" =>
                 /\ clock' = clock + 1
                 /\ \A i \in 1..Len(Appended) : Appended[i].timestamp = clock
                 /\ (BeginExecuted => began'[1].at = clock))
           /\ (StepCalled /\ panic' # "none" => clock' = clock)
           /\ (~StepCalled => clock' = clock) ]_vars

\* a step that both resolved a cast and began an action has completed
C10_Witness ==
    /\ steps = 251
    /\ clock = 251
    /\ Len(event_log) = 3
    /\ event_log[3].timestamp = 250

\* a step of the behaviour is a call of rotation.action
DecisionMade == decisions' = decisions + 1

\* C11: against a player that has never begun an action (so is never
\* locked), the k-th decision of Repeat over s, k counted from 0, returns
\* s[k mod n]; [Hit, Hit, Recharge] yields Hit, Hit, Recharge, Hit.
C11_RepeatCycles ==
    [][ (DecisionMade /\ rotation.kind = "Repeat" /\ began = None) =>
            decided' = Some(rotation.actions[(decisions % Len(rotation.actions)) + 1]) ]_vars

\* the fourth decision over [Hit, Hit, Recharge] has wrapped around to Hit
C11_Witness ==
    /\ rotation.kind = "Repeat"
    /\ rotation.actions = <<"Hit", "Hit", "Recharge">>
    /\ began = None
    /\ decisions = 4
    /\ decided = Some("Hit")
    /\ rotation.current = 1

\* C12: a decision of Repeat made while the action at its cursor is locked
\* returns nothing and leaves the cursor where it is; a decision made while it
\* is not locked returns that action and moves the cursor forward by one,
\* modulo the length; nothing else moves the cursor.
C12_RepeatWaitsForLock ==
    [][ /\ (DecisionMade /\ rotation.kind = "Repeat" /\ panic' # "perform_mp" =>
              LET at_cursor == rotation.actions[rotation.current + 1]
                  p == IF StepCalled THEN perform(player, clock).player ELSE player
              IN  IF locked(p, at_cursor, clock)
                  THEN decided' = None /\ rotation' = rotation
                  ELSE /\ decided' = Some(at_cursor)
                       /\ rotation' = [rotation EXCEPT
                             !.current = (rotation.current + 1) % Len(rotation.actions)])
        /\ (~DecisionMade => rotation' = rotation) ]_vars

\* two decisions waited on the locked Hit and the third, made at the tick the
\* lock expired, returned it and moved the cursor
C12_Witness ==
    /\ rotation.kind = "Repeat"
    /\ rotation.actions = <<"Hit", "Recharge">>
    /\ began = Some([at |-> 0, action |-> "Hit"])
    /\ clock = 250
    /\ decisions = 3
    /\ decided = Some("Hit")
    /\ rotation.current = 1

\* C13: locked(action) is false exactly when (the animation lock is absent
\* or its expiration <= now) and (the action is off-global-cooldown or the
\* recast lock is absent or its expiration <= now); a Player that has not begun
\* an action is not locked for any action at any clock value.
C13_LockedRule ==
    \A a \in Action :
        /\ locked(player, a, clock) =
             ~( /\ (player.animation_lock = None \/ player.animation_lock[1] <= clock)
                /\ \/ is_ogcd(a)
                   \/ player.recast_lock = None
                   \/ player.recast_lock[1] <= clock )
        /\ (began = None => ~locked(player, a, clock))

\* the animation lock has expired and the recast lock still holds
C13_Witness ==
    /\ began # None
    /\ player.animation_lock[1] <= clock
    /\ clock < player.recast_lock[1]
    /\ locked(player, "Hit", clock)

\* the player a rotation sees when it is consulted in this step
PlayerAtDecision == IF StepCalled THEN perform(player, clock).player ELSE player

\* C14: a decision of EagerHit returns Hit when balance >= mp_cost(Hit) and
\* Hit is not locked, Recharge when balance < mp_cost(Hit) and Recharge is not
\* locked, and nothing when the action the balance test chose is locked.
C14_EagerHitDecision ==
    [][ (DecisionMade /\ rotation.kind = "EagerHit" /\ panic' # "perform_mp") =>
            LET p == PlayerAtDecision
            IN  decided' =
                  IF p.mp >= mp_cost("Hit")
                  THEN (IF locked(p, "Hit", clock) THEN None ELSE Some("Hit"))
                  ELSE (IF locked(p, "Recharge", clock) THEN None ELSE Some("Recharge")) ]_vars

\* ten Hits have exhausted the balance and EagerHit has fallen back to Recharge
C14_Witness ==
    /\ rotation.kind = "EagerHit"
    /\ decided = Some("Recharge")
    /\ player.mp = 0
    /\ clock = 2501

\* C15: with no Cast stored, or with a Cast whose finish is greater than now,
\* perform returns nothing and changes nothing.
C15_PerformNoOp ==
    /\ []((player.casting = None \/ player.casting[1].finish > clock) =>
            perform(player, clock) = [player |-> player, ret |-> None, panic |-> "none"])
    /\ [][ (PlayerPerform /\ (player.casting = None \/ player.casting[1].finish > clock)) =>
              UNCHANGED vars ]_vars

\* one tick before the finish of the stored Cast, the balance untouched
C15_Witness ==
    /\ player.casting # None
    /\ clock = player.casting[1].finish - 1
    /\ player.mp = 10000
    /\ panic = "none"

\* C16: the assertion in perform_action never fails: a step after which a
\* Cast is stored has not changed the balance, so the balance at the moment a
\* Cast is resolved is the balance at the moment it was begun, and the stored
\* Cast's cost never exceeds the balance.
C16_PerformAssertionHolds ==
    /\ [](panic # "perform_mp")
    /\ [](player.casting # None => mp_cost(player.casting[1].action) <= player.mp)
    /\ [][player'.casting # None => player'.mp = player.mp]_vars

\* the last affordable Hit has been resolved: its cost equalled the balance
C16_Witness ==
    /\ player.mp = 0
    /\ player.casting = None
    /\ began # None
    /\ began[1].action = "Hit"
    /\ clock >= began[1].at + cast_time("Hit")
    /\ panic = "none"

\* C17: whenever a Cast is stored and now < its finish, every catalog action
\* is locked.
C17_LockedWhileCasting ==
    (player.casting # None /\ clock < player.casting[1].finish) =>
        \A a \in Action : locked(player, a, clock)

\* a Cast in progress after the animation lock has expired
C17_Witness ==
    /\ player.casting # None
    /\ clock < player.casting[1].finish
    /\ player.animation_lock[1] <= clock
    /\ locked(player, "Hit", clock)

\* C18: in a run with EagerHit no assertion of begin or perform fails and
\* the balance stays within 0..10000.
C18_EagerHitSafe ==
    rotation.kind = "EagerHit" =>
        /\ panic = "none"
        /\ player.mp >= 0
        /\ player.mp <= 10000

\* EagerHit has recharged from 0 and gone back to Hit
C18_Witness ==
    /\ rotation.kind = "EagerHit"
    /\ player.mp = 1000
    /\ clock = 3000
    /\ decided = None
    /\ began = Some([at |-> 2750, action |-> "Hit"])

\* the summed cost of the Perform events among the first n entries of a log
RECURSIVE PerformedCost(_, _)
PerformedCost(log, n) ==
    IF n = 0 THEN 0
    ELSE PerformedCost(log, n - 1)
         + (IF log[n].kind[1] = "Perform" THEN mp_cost(log[n].kind[2]) ELSE 0)

\* C19: the log alternates Begin(a), Perform(a), Begin(b), Perform(b), ...
\* starting with a Begin; each Perform carries the action of the Begin right
\* before it and that Begin's timestamp + cast_time; and the balance is the
\* initial 10000 less the cost of each Perform in the log, once.
C19_LogAlternates ==
    /\ \A i \in 1..Len(event_log) :
          IF i % 2 = 1
          THEN event_log[i].kind[1] = "Begin"
          ELSE /\ event_log[i].kind[1] = "Perform"
               /\ event_log[i].kind[2] = event_log[i - 1].kind[2]
               /\ event_log[i].timestamp
                    = event_log[i - 1].timestamp + cast_time(event_log[i].kind[2])
    /\ player.mp = 10000 - PerformedCost(event_log, Len(event_log))

\* Hit and Recharge have each been begun and performed, and Hit begun again
\* in the step that performed Recharge
C19_Witness ==
    /\ Len(event_log) = 5
    /\ event_log[2] = Event(Perform("Hit"), 150)
    /\ event_log[3] = Event(Begin("Recharge"), 250)
    /\ event_log[4] = Event(Perform("Recharge"), 500)
    /\ event_log[5] = Event(Begin("Hit"), 500)
    /\ player.mp = 11000

\* the timestamps of the Begin events of a log
BeginTimes(log) == {log[i].timestamp : i \in {j \in 1..Len(log) : log[j].kind[1] = "Begin"}}

\* C20: in a run with Repeat over [Hit, Recharge] or with EagerHit, after n
\* steps the log holds exactly one Begin event for timestamp 0 and for every
\* later multiple of 250 below n, and none for any other timestamp.
C20_BeginEveryRecast ==
    (rotation = FromRotationArg("EagerHit")
     \/ (rotation.kind = "Repeat" /\ rotation.actions = <<"Hit", "Recharge">>)) =>
        /\ BeginTimes(event_log) = {t \in 0..(clock - 1) : t % 250 = 0}
        /\ Cardinality({j \in 1..Len(event_log) : event_log[j].kind[1] = "Begin"})
             = Cardinality(BeginTimes(event_log))

\* EagerHit switched to Recharge at 2500 and back to Hit at 2750 without
\* missing a multiple of 250
C20_Witness ==
    /\ rotation.kind = "EagerHit"
    /\ clock = 2751
    /\ Len(event_log) = 23
    /\ event_log[21] = Event(Begin("Recharge"), 2500)
    /\ event_log[23] = Event(Begin("Hit"), 2750)

====
